---- MODULE Spec2Model ----
(***************************************************************************)
(* AudioAssistant (main.py): the listening / turn-taking state machine.    *)
(*                                                                         *)
(* The assistant object is shared by the eel facade calls and by the       *)
(* listen_and_process threads that toggle_listening starts.  A facade call *)
(* is one action.  A listen_and_process thread is a process whose position *)
(* is pc[t], with one action per statement that reads or writes a shared   *)
(* field or blocks (recognizer.listen, recognize_google, the two requests  *)
(* of get_ai_response); consecutive statements that touch only locals are  *)
(* part of the action before them.                                         *)
(*                                                                         *)
(* The collaborators (microphone, speech recognition, OpenAI, the file     *)
(* system) are black boxes: a call of one returns or raises, and the model *)
(* takes every outcome the except clauses of the source provide for.       *)
(*                                                                         *)
(* Time is the integer reading of time.time(); it starts above             *)
(* cooldown_time, as any real clock reading does.                          *)
(*                                                                         *)
(* Text is a sequence of one-character strings.  A display line built by   *)
(* an f-string is the sequence of its literal prefix followed by the       *)
(* characters of the interpolated value.                                   *)
(*                                                                         *)
(* Spec is the assistant with its facade and its threads.  ClassifierSpec  *)
(* runs lines 83-89 (is_question and the capitalization of an accepted     *)
(* transcript) on every text over Alphabet up to MaxLen characters and on  *)
(* a few longer transcripts.                                               *)
(***************************************************************************)
EXTENDS Integers, Sequences, FiniteSets, TLC

\* ---------------------------------------------------------------- bounds
\* Number of facade calls the frontend makes in one run.
MaxCalls == 3
\* Largest reading of time.time() (the clock stops there).
MaxTime == 6
\* Number of eel.update_ui calls the display log keeps (publishing blocks then).
MaxUi == 3
\* Longest transcript over Alphabet that is_question is run on.
MaxLen == 4

\* ------------------------------------------------------- program constants
cooldown_time == 2

None == "None"

\* is_listening starts False, so of MaxCalls calls of toggle_listening every
\* second one, the first included, starts a thread
Threads == 1..((MaxCalls + 1) \div 2)

\* ------------------------------------------------------------------ text
UpperCase == <<"A","B","C","D","E","F","G","H","I","J","K","L","M",
               "N","O","P","Q","R","S","T","U","V","W","X","Y","Z">>
LowerCase == <<"a","b","c","d","e","f","g","h","i","j","k","l","m",
               "n","o","p","q","r","s","t","u","v","w","x","y","z">>

\* str.lower() / str.upper() on one character
lower_char(c) ==
    IF \E i \in 1..26 : UpperCase[i] = c
    THEN LowerCase[CHOOSE i \in 1..26 : UpperCase[i] = c]
    ELSE c

upper_char(c) ==
    IF \E i \in 1..26 : LowerCase[i] = c
    THEN UpperCase[CHOOSE i \in 1..26 : LowerCase[i] = c]
    ELSE c

\* str.lower()
lower(s) == [i \in 1..Len(s) |-> lower_char(s[i])]

IsSpace(c) == c = " "

\* str.strip(): drop leading and trailing whitespace
strip(s) ==
    IF \A i \in 1..Len(s) : IsSpace(s[i])
    THEN << >>
    ELSE LET first == CHOOSE i \in 1..Len(s) :
                         /\ ~IsSpace(s[i])
                         /\ \A j \in 1..(i-1) : IsSpace(s[j])
             last  == CHOOSE i \in 1..Len(s) :
                         /\ ~IsSpace(s[i])
                         /\ \A j \in (i+1)..Len(s) : IsSpace(s[j])
         IN  SubSeq(s, first, last)

\* str.startswith / str.endswith / the `in` substring test
startswith(s, p) == Len(p) <= Len(s) /\ SubSeq(s, 1, Len(p)) = p
endswith(s, p)   == Len(p) <= Len(s) /\ SubSeq(s, Len(s) - Len(p) + 1, Len(s)) = p
contains(s, p)   == \E i \in 0..(Len(s) - Len(p)) : SubSeq(s, i + 1, i + Len(p)) = p

\* question_starters without "is"
question_starters_without_is == {
    <<"w","h","a","t">>, <<"w","h","y">>, <<"h","o","w">>, <<"w","h","e","n">>,
    <<"w","h","e","r","e">>, <<"w","h","o">>, <<"w","h","i","c","h">>,
    <<"c","a","n">>, <<"c","o","u","l","d">>, <<"w","o","u","l","d">>,
    <<"s","h","o","u","l","d">>, <<"a","r","e">>, <<"d","o">>,
    <<"d","o","e","s">>, <<"a","m">>, <<"w","a","s">>, <<"w","e","r","e">>,
    <<"h","a","v","e">>, <<"h","a","s">>, <<"h","a","d">>, <<"w","i","l","l">>,
    <<"s","h","a","l","l">> }

question_starters == {
    <<"w","h","a","t">>, <<"w","h","y">>, <<"h","o","w">>, <<"w","h","e","n">>,
    <<"w","h","e","r","e">>, <<"w","h","o">>, <<"w","h","i","c","h">>,
    <<"c","a","n">>, <<"c","o","u","l","d">>, <<"w","o","u","l","d">>,
    <<"s","h","o","u","l","d">>, <<"i","s">>, <<"a","r","e">>, <<"d","o">>,
    <<"d","o","e","s">>, <<"a","m">>, <<"w","a","s">>, <<"w","e","r","e">>,
    <<"h","a","v","e">>, <<"h","a","s">>, <<"h","a","d">>, <<"w","i","l","l">>,
    <<"s","h","a","l","l">> }

\* the alternatives of the regular expression ^(are|can|...|is)\s
inverted_auxiliaries == {
    <<"a","r","e">>, <<"c","a","n">>, <<"c","o","u","l","d">>, <<"d","o">>,
    <<"d","o","e","s">>, <<"h","a","v","e">>, <<"h","a","s">>, <<"w","i","l","l">>,
    <<"s","h","a","l","l">>, <<"s","h","o","u","l","d">>, <<"w","o","u","l","d">>,
    <<"a","m">>, <<"i","s">> }

question_phrases == {
    <<"t","e","l","l"," ","m","e"," ","a","b","o","u","t">>,
    <<"i","'","d"," ","l","i","k","e"," ","t","o"," ","k","n","o","w">>,
    <<"c","a","n"," ","y","o","u"," ","e","x","p","l","a","i","n">>,
    <<"i"," ","w","a","s"," ","w","o","n","d","e","r","i","n","g">>,
    <<"d","o"," ","y","o","u"," ","k","n","o","w">>,
    <<"w","h","a","t"," ","a","b","o","u","t">>,
    <<"h","o","w"," ","a","b","o","u","t">> }

\* re.match(r'^(are|can|...)\s', text)
match_inverted(s) ==
    \E a \in inverted_auxiliaries :
        /\ startswith(s, a)
        /\ Len(s) > Len(a)
        /\ IsSpace(s[Len(a) + 1])

is_question(raw) ==
    LET text == strip(lower(raw))
    IN  IF \E starter \in question_starters : startswith(text, starter) THEN TRUE
        ELSE IF endswith(text, <<"?">>) THEN TRUE
        ELSE IF match_inverted(text) THEN TRUE
        ELSE IF \E phrase \in question_phrases : contains(text, phrase) THEN TRUE
        ELSE FALSE

\* capitalize without the test of line 87: "?" is appended to every text
capitalize_always_appends(text) ==
    <<upper_char(text[1])>> \o SubSeq(text, 2, Len(text)) \o <<"?">>

\* lines 86-88: capitalized_text
capitalize(text) ==
    LET capitalized_text == <<upper_char(text[1])>> \o SubSeq(text, 2, Len(text))
    IN  IF ~endswith(capitalized_text, <<"?">>)
        THEN capitalized_text \o <<"?">>
        ELSE capitalized_text

\* f"Q: {capitalized_text}" and f"An error occurred: {str(e)}"
question_line(capitalized_text) == <<"Q: ">> \o capitalized_text
error_line(e) == <<"An error occurred: ", e>>

\* json.dumps({"text": ..., "audio": ...}) returned by get_ai_response
ai_response(text_response, audio_base64) ==
    <<"text", text_response, "audio", audio_base64>>
error_response(e) ==
    <<"text", <<"Error getting AI response: ", e>>, "audio", None>>

\* ----------------------------------------------------------------- state
\* config.json is written by set_api_key and removed by delete_api_key but
\* read by the constructor only, so it is a part of Init and not of the state.
VARIABLES
    is_listening,     \* self.is_listening
    is_speaking,      \* self.is_speaking
    audio_playing,    \* self.audio_playing
    tts_enabled,      \* self.tts_enabled
    api_key,          \* self.api_key
    client,           \* self.client
    now,              \* the reading time.time() gives
    ui,               \* the eel.update_ui calls made so far, oldest first
    pc,               \* pc[t]: position of thread t in listen_and_process
    current_time,     \* current_time of thread t (0 outside lines 76-77)
    last_speak_time,  \* last_speak_time of thread t
    capitalized_text, \* capitalized_text of thread t (<<>> outside lines 86-91)
    response,         \* response of thread t (<<>> outside lines 91-92)
    cancelled,        \* history: toggle_listening set is_listening False while t ran
    capture_gap,      \* history: time from the last completed answer to the start of
                      \* t's capture attempt (-1: no capture under way, or no answer yet)
    answer_done,      \* history: time at which the last answer completed (0: none)
    calls,            \* history: number of facade calls made so far
    transcript,       \* ClassifierSpec: the text recognize_google returned (line 83)
    verdict           \* ClassifierSpec: << >> until is_question(text) has returned,
                      \* then the one-element sequence of the value it returned

shared == <<is_listening, is_speaking, audio_playing, tts_enabled, api_key, client>>
locals == <<pc, current_time, last_speak_time, capitalized_text, response>>
history == <<cancelled, capture_gap, answer_done>>
classifier == <<transcript, verdict>>
vars == <<shared, now, ui, locals, history, calls, classifier>>

\* what recognize_google can return for a captured utterance
Transcripts == {
    <<"a","r","e"," ","y","o","u"," ","t","h","e","r","e">>,
    <<"i"," ","l","i","k","e"," ","d","o","g","s">> }

\* the credentials the frontend can save
Keys == {"sk"}

\* positions at which a thread is inside get_ai_response with a request sent
Requesting == {"chat_create", "speech_create"}
\* positions from line 90 done to line 93 not yet done
Answering == {"chat_create", "speech_create", "update_ui"}
Running(t) == pc[t] \notin {"unstarted", "done"}

\* eel.update_ui(question, answer)
update_ui(question, answer) == ui' = Append(ui, <<question, answer>>)

\* lines 16-25 and 35-40: the constructor, config.json absent or holding a key
Init ==
    /\ is_listening = FALSE
    /\ is_speaking = FALSE
    /\ audio_playing = FALSE
    /\ tts_enabled = TRUE
    /\ \E k \in Keys \cup {None} :
          /\ api_key = k
          /\ client = IF k = None THEN None ELSE "OpenAI"
    /\ now = cooldown_time + 1
    /\ ui = << >>
    /\ pc = [t \in Threads |-> "unstarted"]
    /\ current_time = [t \in Threads |-> 0]
    /\ last_speak_time = [t \in Threads |-> 0]
    /\ capitalized_text = [t \in Threads |-> << >>]
    /\ response = [t \in Threads |-> << >>]
    /\ cancelled = [t \in Threads |-> FALSE]
    /\ capture_gap = [t \in Threads |-> -1]
    /\ answer_done = 0
    /\ calls = 0
    /\ transcript = << >>
    /\ verdict = << >>

\* ------------------------------------------------------------ the facade
\* how a call of set_api_key / delete_api_key can end
SaveOutcomes == {"ok", "OpenAI raises", "open raises"}
DeleteOutcomes == {"ok", "remove raises"}

\* the frontend makes one more facade call
Call ==
    /\ calls < MaxCalls
    /\ calls' = calls + 1
    /\ UNCHANGED classifier

\* lines 42-47: OpenAI(...) or the file write may raise, and the assignments
\* made before the raise stay
set_api_key(k, outcome) ==
    /\ Call
    /\ api_key' = k
    /\ client' = IF outcome = "OpenAI raises" THEN client ELSE "OpenAI"
    /\ UNCHANGED <<is_listening, is_speaking, audio_playing, tts_enabled,
                   now, ui, locals, history>>

\* lines 177-184: the value save_api_key returns
save_api_key_returns(outcome) == outcome = "ok"

\* lines 177-184
save_api_key == \E k \in Keys, outcome \in SaveOutcomes : set_api_key(k, outcome)

\* lines 49-54, 186-193; os.remove may raise, after the fields are cleared
delete_api_key ==
    /\ Call
    /\ api_key' = None
    /\ client' = None
    /\ UNCHANGED <<is_listening, is_speaking, audio_playing, tts_enabled,
                   now, ui, locals, history>>

\* lines 186-193: the value delete_api_key returns
delete_api_key_returns(outcome) == outcome = "ok"

\* lines 56-58, 195-197: the value has_api_key returns (it writes nothing)
has_api_key == api_key # None

\* line 62: the credential check of toggle_listening
client_ok == client # None

\* the thread that threading.Thread(...).start() creates
NewThread == CHOOSE t \in Threads : pc[t] = "unstarted" /\
                 \A u \in Threads : pc[u] = "unstarted" => t <= u

\* lines 60-68, 173-175
toggle_listening ==
    /\ Call
    /\ IF ~client_ok
       THEN UNCHANGED <<shared, now, ui, locals, history>>
       ELSE /\ is_listening' = ~is_listening
            /\ IF is_listening'
               THEN /\ pc' = [pc EXCEPT ![NewThread] = "while"]
                    /\ UNCHANGED cancelled
               ELSE /\ cancelled' = [t \in Threads |-> cancelled[t] \/ Running(t)]
                    /\ UNCHANGED pc
            /\ UNCHANGED <<is_speaking, audio_playing, tts_enabled, api_key, client,
                           now, ui, current_time, last_speak_time,
                           capitalized_text, response, capture_gap, answer_done>>

\* lines 63 and 68: the value a call of toggle_listening returns
toggle_listening_returns == IF ~client_ok THEN FALSE ELSE ~is_listening

\* lines 199-202
toggle_tts ==
    /\ Call
    /\ tts_enabled' = ~tts_enabled
    /\ UNCHANGED <<is_listening, is_speaking, audio_playing, api_key, client,
                   now, ui, locals, history>>

\* line 202: the value a call of toggle_tts returns
toggle_tts_returns == ~tts_enabled

\* lines 204-206
speaking_ended ==
    /\ Call
    /\ is_speaking' = FALSE
    /\ UNCHANGED <<is_listening, audio_playing, tts_enabled, api_key, client,
                   now, ui, locals, history>>

\* lines 208-210
audio_playback_started ==
    /\ Call
    /\ audio_playing' = TRUE
    /\ UNCHANGED <<is_listening, is_speaking, tts_enabled, api_key, client,
                   now, ui, locals, history>>

\* lines 212-215
audio_playback_ended ==
    /\ Call
    /\ audio_playing' = FALSE
    /\ is_speaking' = FALSE
    /\ UNCHANGED <<is_listening, tts_enabled, api_key, client,
                   now, ui, locals, history>>

\* the clock time.time() reads
Tick ==
    /\ now < MaxTime
    /\ now' = now + 1
    /\ UNCHANGED <<shared, ui, locals, history, calls, classifier>>

\* ------------------------------------------------- listen_and_process
\* what a step of thread t leaves alone besides its own writes
Frame(t) == UNCHANGED <<is_listening, tts_enabled, api_key, client, now, calls,
                        classifier>>

\* the iteration of thread t ends: back to the while test of line 75
NextIteration(t) ==
    /\ pc' = [pc EXCEPT ![t] = "while"]
    /\ capture_gap' = [capture_gap EXCEPT ![t] = -1]

\* lines 75-76: the while test, then current_time = time.time(); a thread
\* that leaves the loop ends, and its locals with it
WhileTest(t) ==
    /\ pc[t] = "while"
    /\ IF is_listening
       THEN /\ pc' = [pc EXCEPT ![t] = "if"]
            /\ current_time' = [current_time EXCEPT ![t] = now]
            /\ UNCHANGED <<last_speak_time, cancelled>>
       ELSE /\ pc' = [pc EXCEPT ![t] = "done"]
            /\ last_speak_time' = [last_speak_time EXCEPT ![t] = 0]
            /\ cancelled' = [cancelled EXCEPT ![t] = FALSE]
            /\ UNCHANGED current_time
    /\ Frame(t)
    /\ UNCHANGED <<is_speaking, audio_playing, ui, capitalized_text, response,
                   capture_gap, answer_done>>

\* Guard with the audio_playing test left out
Guard_without_audio(t) ==
    /\ ~is_speaking
    /\ (current_time[t] - last_speak_time[t]) > cooldown_time

\* Guard with the cooldown compared to a longer interval
Guard_longer_cooldown(t) ==
    /\ ~is_speaking
    /\ ~audio_playing
    /\ (current_time[t] - last_speak_time[t]) > cooldown_time + 1

\* line 77: the suppression guard
Guard(t) ==
    /\ ~is_speaking
    /\ ~audio_playing
    /\ (current_time[t] - last_speak_time[t]) > cooldown_time

\* line 77: the if; the two flags are read in one step, a write between the
\* two reads gives the same states as a write just before or after the step
If(t) ==
    /\ pc[t] = "if"
    /\ IF Guard(t)
       THEN pc' = [pc EXCEPT ![t] = "with_mic"]
       ELSE pc' = [pc EXCEPT ![t] = "sleep"]
    /\ current_time' = [current_time EXCEPT ![t] = 0]
    /\ Frame(t)
    /\ UNCHANGED <<cancelled, is_speaking, audio_playing, ui, last_speak_time,
                   capitalized_text, response, capture_gap, answer_done>>

\* line 102: time.sleep(0.1) returns at this or at a later clock reading
Sleep(t) ==
    /\ pc[t] = "sleep"
    /\ NextIteration(t)
    /\ Frame(t)
    /\ UNCHANGED <<cancelled, is_speaking, audio_playing, ui, current_time, last_speak_time,
                   capitalized_text, response, answer_done>>

\* lines 80-81: the capture attempt starts, recognizer.listen is called
StartListen(t) ==
    /\ pc[t] = "with_mic"
    /\ pc' = [pc EXCEPT ![t] = "listen"]
    /\ capture_gap' = [capture_gap EXCEPT ![t] =
                          IF answer_done = 0 THEN -1 ELSE now - answer_done]
    /\ Frame(t)
    /\ UNCHANGED <<cancelled, is_speaking, audio_playing, ui, current_time, last_speak_time,
                   capitalized_text, response, answer_done>>

\* ListenReturns without the except Exception clause: the exception ends the thread
ListenReturns_uncaught(t) ==
    /\ pc[t] = "listen"
    /\ \E outcome \in {"audio", "WaitTimeoutError", "Exception"} :
          /\ IF outcome = "audio"
             THEN /\ pc' = [pc EXCEPT ![t] = "recognize_google"]
                  /\ UNCHANGED capture_gap
             ELSE IF outcome = "Exception"
             THEN /\ pc' = [pc EXCEPT ![t] = "done"]
                  /\ capture_gap' = [capture_gap EXCEPT ![t] = -1]
             ELSE NextIteration(t)
          /\ UNCHANGED ui
    /\ Frame(t)
    /\ UNCHANGED <<cancelled, is_speaking, audio_playing, current_time, last_speak_time,
                   capitalized_text, response, answer_done>>

\* ListenOutcome without the except sr.WaitTimeoutError clause of line 95:
\* the timeout reaches the except Exception clause
ListenOutcome_timeout_reported(t, outcome) ==
    /\ pc[t] = "listen"
    /\ IF outcome = "audio"
       THEN /\ pc' = [pc EXCEPT ![t] = "recognize_google"]
            /\ UNCHANGED capture_gap
       ELSE NextIteration(t)
    /\ IF outcome # "audio"
       THEN /\ Len(ui) < MaxUi
            /\ update_ui(error_line("Exception"), << >>)
       ELSE UNCHANGED ui
    /\ Frame(t)
    /\ UNCHANGED <<cancelled, is_speaking, audio_playing, current_time, last_speak_time,
                   capitalized_text, response, answer_done>>

\* lines 81, 95-100: recognizer.listen returns the audio or raises outcome
ListenOutcome(t, outcome) ==
    /\ pc[t] = "listen"
    /\ IF outcome = "audio"
       THEN /\ pc' = [pc EXCEPT ![t] = "recognize_google"]
            /\ UNCHANGED capture_gap
       ELSE NextIteration(t)
    /\ IF outcome = "Exception"
       THEN /\ Len(ui) < MaxUi
            /\ update_ui(error_line(outcome), << >>)
       ELSE UNCHANGED ui
    /\ Frame(t)
    /\ UNCHANGED <<cancelled, is_speaking, audio_playing, current_time, last_speak_time,
                   capitalized_text, response, answer_done>>

\* lines 81, 95-100: recognizer.listen returns the audio or raises
ListenReturns(t) ==
    \E outcome \in {"audio", "WaitTimeoutError", "Exception"} : ListenOutcome(t, outcome)

\* Recognize without the eel.update_ui call of line 89
Recognize_unannounced(t) ==
    /\ pc[t] = "recognize_google"
    /\ \/ \E text \in Transcripts :
             IF is_question(text)
             THEN /\ capitalized_text' = [capitalized_text EXCEPT ![t] = capitalize(text)]
                  /\ pc' = [pc EXCEPT ![t] = "set_speaking"]
                  /\ UNCHANGED <<ui, capture_gap>>
             ELSE /\ NextIteration(t)
                  /\ UNCHANGED <<ui, capitalized_text>>
       \/ \E outcome \in {"UnknownValueError", "Exception"} :
             /\ NextIteration(t)
             /\ IF outcome = "Exception"
                THEN /\ Len(ui) < MaxUi
                     /\ update_ui(error_line(outcome), << >>)
                ELSE UNCHANGED ui
             /\ UNCHANGED capitalized_text
    /\ Frame(t)
    /\ UNCHANGED <<cancelled, is_speaking, audio_playing, current_time, last_speak_time,
                   response, answer_done>>

\* lines 83-89: recognize_google returns text; a question is capitalized and
\* published with an empty answer
RecognizeReturns(t, text) ==
    /\ pc[t] = "recognize_google"
    /\ IF is_question(text)
       THEN /\ Len(ui) < MaxUi
            /\ capitalized_text' = [capitalized_text EXCEPT ![t] = capitalize(text)]
            /\ update_ui(question_line(capitalize(text)), << >>)
            /\ pc' = [pc EXCEPT ![t] = "set_speaking"]
            /\ UNCHANGED capture_gap
       ELSE /\ NextIteration(t)
            /\ UNCHANGED <<ui, capitalized_text>>
    /\ Frame(t)
    /\ UNCHANGED <<cancelled, is_speaking, audio_playing, current_time, last_speak_time,
                   response, answer_done>>

\* lines 83, 97-100: recognize_google raises outcome
RecognizeRaises(t, outcome) ==
    /\ pc[t] = "recognize_google"
    /\ NextIteration(t)
    /\ IF outcome = "Exception"
       THEN /\ Len(ui) < MaxUi
            /\ update_ui(error_line(outcome), << >>)
       ELSE UNCHANGED ui
    /\ Frame(t)
    /\ UNCHANGED <<cancelled, is_speaking, audio_playing, current_time, last_speak_time,
                   capitalized_text, response, answer_done>>

\* lines 83-89, 95-100: recognize_google returns the transcript or raises
Recognize(t) ==
    \/ \E text \in Transcripts : RecognizeReturns(t, text)
    \/ \E outcome \in {"UnknownValueError", "Exception"} : RecognizeRaises(t, outcome)

\* lines 90-91, 140-147, 165-167: is_speaking = True, then get_ai_response
\* sends the chat request through self.client; with no client the attribute
\* access raises and the error text is the response
SetSpeaking(t) ==
    /\ pc[t] = "set_speaking"
    /\ is_speaking' = TRUE
    /\ IF client = None
       THEN /\ response' = [response EXCEPT ![t] = error_response("Exception")]
            /\ pc' = [pc EXCEPT ![t] = "update_ui"]
       ELSE /\ pc' = [pc EXCEPT ![t] = "chat_create"]
            /\ UNCHANGED response
    /\ capitalized_text' = [capitalized_text EXCEPT ![t] = << >>]
    /\ capture_gap' = [capture_gap EXCEPT ![t] = -1]
    /\ Frame(t)
    /\ UNCHANGED <<cancelled, audio_playing, ui, current_time, last_speak_time, answer_done>>

\* ChatReturns without the except clause of line 165: the exception ends the thread
ChatReturns_propagates(t) ==
    /\ pc[t] = "chat_create"
    /\ \E outcome \in {"ok", "Exception"} :
          IF outcome # "ok"
          THEN /\ pc' = [pc EXCEPT ![t] = "done"]
               /\ UNCHANGED response
          ELSE IF ~tts_enabled
          THEN /\ response' = [response EXCEPT ![t] = ai_response(<<"answer">>, None)]
               /\ pc' = [pc EXCEPT ![t] = "update_ui"]
          ELSE IF client = None
          THEN /\ response' = [response EXCEPT ![t] = error_response("Exception")]
               /\ pc' = [pc EXCEPT ![t] = "update_ui"]
          ELSE /\ pc' = [pc EXCEPT ![t] = "speech_create"]
               /\ UNCHANGED response
    /\ Frame(t)
    /\ UNCHANGED <<cancelled, is_speaking, audio_playing, ui, current_time, last_speak_time,
                   capitalized_text, capture_gap, answer_done>>

\* lines 141-157, 163-167: the chat request returns or raises; with
\* tts_enabled the speech request is sent through self.client
ChatReturns(t) ==
    /\ pc[t] = "chat_create"
    /\ \E outcome \in {"ok", "Exception"} :
          IF outcome # "ok"
          THEN /\ response' = [response EXCEPT ![t] = error_response(outcome)]
               /\ pc' = [pc EXCEPT ![t] = "update_ui"]
          ELSE IF ~tts_enabled
          THEN /\ response' = [response EXCEPT ![t] = ai_response(<<"answer">>, None)]
               /\ pc' = [pc EXCEPT ![t] = "update_ui"]
          ELSE IF client = None
          THEN /\ response' = [response EXCEPT ![t] = error_response("Exception")]
               /\ pc' = [pc EXCEPT ![t] = "update_ui"]
          ELSE /\ pc' = [pc EXCEPT ![t] = "speech_create"]
               /\ UNCHANGED response
    /\ Frame(t)
    /\ UNCHANGED <<cancelled, is_speaking, audio_playing, ui, current_time, last_speak_time,
                   capitalized_text, capture_gap, answer_done>>

\* lines 153-161, 165-167: the speech request returns or raises
SpeechReturns(t) ==
    /\ pc[t] = "speech_create"
    /\ \E outcome \in {"ok", "Exception"} :
          response' = [response EXCEPT ![t] =
                          IF outcome = "ok"
                          THEN ai_response(<<"answer">>, "audio_base64")
                          ELSE error_response(outcome)]
    /\ pc' = [pc EXCEPT ![t] = "update_ui"]
    /\ Frame(t)
    /\ UNCHANGED <<cancelled, is_speaking, audio_playing, ui, current_time, last_speak_time,
                   capitalized_text, capture_gap, answer_done>>

\* FinishAnswer without the is_speaking = False of line 93
FinishAnswer_keeps_speaking(t) ==
    /\ pc[t] = "update_ui"
    /\ Len(ui) < MaxUi
    /\ update_ui(<< >>, response[t])
    /\ response' = [response EXCEPT ![t] = << >>]
    /\ last_speak_time' = [last_speak_time EXCEPT ![t] = now]
    /\ answer_done' = now
    /\ NextIteration(t)
    /\ Frame(t)
    /\ UNCHANGED <<cancelled, is_speaking, audio_playing, current_time, capitalized_text>>

\* FinishAnswer that also clears audio_playing when the answer is published
FinishAnswer_clears_audio(t) ==
    /\ pc[t] = "update_ui"
    /\ Len(ui) < MaxUi
    /\ update_ui(<< >>, response[t])
    /\ response' = [response EXCEPT ![t] = << >>]
    /\ is_speaking' = FALSE
    /\ audio_playing' = FALSE
    /\ last_speak_time' = [last_speak_time EXCEPT ![t] = now]
    /\ answer_done' = now
    /\ NextIteration(t)
    /\ Frame(t)
    /\ UNCHANGED <<cancelled, current_time, capitalized_text>>

\* lines 92-94: eel.update_ui("", f"{response}"), is_speaking = False,
\* last_speak_time = time.time()
FinishAnswer(t) ==
    /\ pc[t] = "update_ui"
    /\ Len(ui) < MaxUi
    /\ update_ui(<< >>, response[t])
    /\ response' = [response EXCEPT ![t] = << >>]
    /\ is_speaking' = FALSE
    /\ last_speak_time' = [last_speak_time EXCEPT ![t] = now]
    /\ answer_done' = now
    /\ NextIteration(t)
    /\ Frame(t)
    /\ UNCHANGED <<cancelled, audio_playing, current_time, capitalized_text>>

\* one step of the listen_and_process thread t
listen_and_process(t) ==
    \/ WhileTest(t)
    \/ If(t)
    \/ Sleep(t)
    \/ StartListen(t)
    \/ ListenReturns(t)
    \/ Recognize(t)
    \/ SetSpeaking(t)
    \/ ChatReturns(t)
    \/ SpeechReturns(t)
    \/ FinishAnswer(t)

Next ==
    \/ toggle_listening
    \/ save_api_key
    \/ delete_api_key
    \/ toggle_tts
    \/ speaking_ended
    \/ audio_playback_started
    \/ audio_playback_ended
    \/ Tick
    \/ \E t \in Threads : listen_and_process(t)

Spec == Init /\ [][Next]_vars

\* ------------------------------------------- lines 83-89 on any transcript
\* The classifier and the normalization of an accepted transcript, run by one
\* thread on every transcript of a bounded set instead of on Transcripts.
Alphabet == {"i", "s", "I", " ", "?"}

\* every text over Alphabet of at most n characters
TextsUpTo(n) == UNION { [1..k -> Alphabet] : k \in 0..n }

\* longer transcripts, one for each rule of is_question and for no rule
Samples == {
    <<"w","h","a","t"," ","i","s"," ","t","h","e"," ","w","e","a","t","h","e","r">>,
    <<"I","s"," ","t","h","i","s"," ","w","o","r","k","i","n","g","?">>,
    <<"t","e","l","l"," ","m","e"," ","a","b","o","u","t"," ","d","o","g","s">>,
    <<"t","h","e"," ","s","k","y"," ","i","s"," ","b","l","u","e">>,
    <<"I"," ","l","i","k","e"," ","d","o","g","s">>,
    <<"d","o","g","s"," ","b","a","r","k">>,
    <<"a","r","e"," ","y","o","u"," ","t","h","e","r","e">>,
    <<"r","e","a","l","l","y","?">> }

\* the thread that runs lines 83-89
Worker == 1

ClassifierInit ==
    /\ transcript \in TextsUpTo(MaxLen) \cup Samples
    /\ verdict = << >>
    /\ is_listening = TRUE
    /\ is_speaking = FALSE
    /\ audio_playing = FALSE
    /\ tts_enabled = TRUE
    /\ api_key = "sk"
    /\ client = "OpenAI"
    /\ now = cooldown_time + 1
    /\ ui = << >>
    /\ pc = [t \in Threads |-> IF t = Worker THEN "recognize_google" ELSE "unstarted"]
    /\ current_time = [t \in Threads |-> 0]
    /\ last_speak_time = [t \in Threads |-> 0]
    /\ capitalized_text = [t \in Threads |-> << >>]
    /\ response = [t \in Threads |-> << >>]
    /\ cancelled = [t \in Threads |-> FALSE]
    /\ capture_gap = [t \in Threads |-> -1]
    /\ answer_done = 0
    /\ calls = 0

\* line 84: is_question(transcript) returns
Classify ==
    /\ pc[Worker] = "recognize_google"
    /\ verdict = << >>
    /\ verdict' = <<is_question(transcript)>>
    /\ UNCHANGED <<transcript, shared, now, ui, locals, history, calls>>

\* lines 84-89: a transcript that is not a question ends the iteration, a
\* question is capitalized and published with an empty answer
Announce ==
    /\ pc[Worker] = "recognize_google"
    /\ verdict # << >>
    /\ IF verdict[1]
       THEN /\ capitalized_text' = [capitalized_text EXCEPT ![Worker] = capitalize(transcript)]
            /\ update_ui(question_line(capitalize(transcript)), << >>)
            /\ pc' = [pc EXCEPT ![Worker] = "set_speaking"]
       ELSE /\ pc' = [pc EXCEPT ![Worker] = "while"]
            /\ UNCHANGED <<ui, capitalized_text>>
    /\ UNCHANGED <<classifier, shared, now, current_time, last_speak_time, response,
                   history, calls>>

ClassifierNext ==
    \/ Classify
    \/ Announce

ClassifierSpec == ClassifierInit /\ [][ClassifierNext]_vars

\* ================================================================ claims

\* C1: at most one question is in flight at a time: no state has two answer
\* requests (get_ai_response calls) outstanding at once.
OneAnswerInFlight ==
    Cardinality({t \in Threads : pc[t] \in Requesting}) <= 1

\* C2: for two consecutive accepted questions, the capture attempt that yields
\* the second one starts no earlier than cooldown_time after the first answer
\* completed.
CooldownBetweenQuestions ==
    \A t \in Threads :
        (pc[t] = "set_speaking" /\ capture_gap[t] >= 0)
            => capture_gap[t] >= cooldown_time

\* C3 (as claimed): no capture attempt is started while is_speaking or
\* audio_playing is true.
NoCaptureWhileSuppressed ==
    [][\A t \in Threads :
          (pc[t] = "with_mic" /\ pc'[t] = "listen")
              => (~is_speaking /\ ~audio_playing)]_vars

\* C3 (amended): a capture attempt is started only by an iteration whose
\* guard, at the top of that iteration, read is_speaking and audio_playing
\* both false; nothing else leads a thread to recognizer.listen.
CaptureOnlyAfterGuard ==
    [][\A t \in Threads :
          /\ (pc'[t] = "listen" /\ pc[t] # "listen") => pc[t] = "with_mic"
          /\ (pc'[t] = "with_mic" /\ pc[t] # "with_mic")
                => (pc[t] = "if" /\ ~is_speaking /\ ~audio_playing)]_vars

\* C3 witness: a capture attempt is under way while audio is playing
CaptureDuringPlayback ==
    \E t \in Threads : pc[t] = "listen" /\ audio_playing

\* C4: once toggle_listening has set is_listening False, every loop that was
\* running ends at its next while test.
CancelledLoopExits ==
    [][\A t \in Threads :
          (cancelled[t] /\ pc[t] = "while" /\ pc'[t] # "while")
              => pc'[t] = "done"]_vars

\* C5: while no credential is configured no capture attempt is started and no
\* request is sent to the answer service.
NoCredentialNoWork ==
    [][api_key = None =>
          \A t \in Threads :
              /\ ~(pc[t] = "with_mic" /\ pc'[t] = "listen")
              /\ ~(pc[t] \notin Requesting /\ pc'[t] \in Requesting)]_vars

\* C6: a call of toggle_listening with no credential configured returns false,
\* starts no thread and changes no field; with a credential configured it flips
\* is_listening, returns the new value and starts a thread exactly when the new
\* value is true.
ToggleFollowsCredential ==
    [][toggle_listening =>
          IF api_key = None
          THEN /\ ~toggle_listening_returns
               /\ UNCHANGED <<shared, pc>>
          ELSE /\ is_listening' = ~is_listening
               /\ toggle_listening_returns = is_listening'
               /\ is_listening' <=>
                     \E t \in Threads : pc[t] = "unstarted" /\ pc'[t] = "while"]_vars

\* C7: no failure of an iteration (onset timeout, unintelligible audio,
\* capture error, transcription error, answer-service error) ends the loop: a
\* thread ends only at the while test, on reading is_listening false, and every
\* other step leaves it in the loop.
LoopEndsOnlyAtWhileTest ==
    [][\A t \in Threads :
          /\ (pc'[t] = "done" /\ pc[t] # "done")
                => (pc[t] = "while" /\ ~is_listening)
          /\ (pc[t] \in {"listen", "recognize_google", "chat_create", "speech_create"}
                /\ pc'[t] # pc[t])
                => pc'[t] \in {"while", "recognize_google", "set_speaking",
                               "speech_create", "update_ui"}]_vars

\* C7 witness: an error line was published and the thread is back at the while test
LoopContinuesAfterError ==
    \E t \in Threads :
        /\ pc[t] = "while"
        /\ Len(ui) > 0
        /\ ui[Len(ui)] = <<error_line("Exception"), << >> >>

\* a line of the display log is a question line / an answer line
IsQuestionEntry(e) == e[2] = << >> /\ Len(e[1]) > 0 /\ e[1][1] = "Q: "
IsAnswerEntry(e) == e[1] = << >>
Count(P(_), n) == Cardinality({i \in 1..n : P(ui[i])})

\* C8: the question line of an accepted question is published before its
\* answer: in every prefix of the display log there are at least as many
\* question lines as answer lines, and the questions still without an answer
\* are exactly those of the threads between line 89 and line 92.
QuestionBeforeAnswer ==
    /\ \A n \in 0..Len(ui) : Count(IsAnswerEntry, n) <= Count(IsQuestionEntry, n)
    /\ Count(IsQuestionEntry, Len(ui)) - Count(IsAnswerEntry, Len(ui))
          = Cardinality({t \in Threads : pc[t] \in {"set_speaking"} \cup Answering})

\* C8 witness: a question line followed by its answer line
QuestionThenAnswerShown ==
    /\ Len(ui) >= 2
    /\ IsQuestionEntry(ui[1])
    /\ IsAnswerEntry(ui[2])

\* C9 (as claimed): with is_listening true, both flags false and the time since
\* the last completed answer at least cooldown_time, the iteration performs a
\* capture attempt.
CaptureWhenCooldownReached ==
    [][\A t \in Threads :
          (/\ pc[t] = "if" /\ pc'[t] # "if"
           /\ is_listening /\ ~is_speaking /\ ~audio_playing
           /\ (current_time[t] - last_speak_time[t]) >= cooldown_time)
              => pc'[t] = "with_mic"]_vars

\* C9 (amended): with both flags false and the time since the last completed
\* answer greater than cooldown_time, the iteration performs a capture attempt.
CaptureWhenCooldownExceeded ==
    [][\A t \in Threads :
          (/\ pc[t] = "if" /\ pc'[t] # "if"
           /\ ~is_speaking /\ ~audio_playing
           /\ (current_time[t] - last_speak_time[t]) > cooldown_time)
              => pc'[t] = "with_mic"]_vars

\* C9 witness: a thread that completed an answer is about to capture again
CaptureAfterCooldown ==
    \E t \in Threads : pc[t] = "with_mic" /\ last_speak_time[t] > 0

\* C10: is_speaking is true only while some iteration is between setting it
\* (line 90) and having published the answer and reset it (lines 92-93).
SpeakingOnlyWhileAnswering ==
    is_speaking => \E t \in Threads : pc[t] \in Answering

\* C10 witness: is_speaking is true during an answer round trip
SpeakingDuringAnswer ==
    is_speaking /\ \E t \in Threads : pc[t] \in Requesting

\* the response is the error text of line 167 with no audio
IsErrorResponse(r) ==
    /\ Len(r) = 4
    /\ r[2][1] = "Error getting AI response: "
    /\ r[4] = None

\* the response is an answer text, with or without audio
IsAnswerResponse(r) ==
    /\ Len(r) = 4
    /\ r[2] = <<"answer">>

\* C11: a failure of the answer service, at the chat request or at the speech
\* request, stays inside the iteration: the step that ends a request leaves
\* the thread with an answer or with the error text and no audio as its
\* response, and the next step publishes that response as the answer, sets
\* is_speaking False and records the completion time, for an error as for an
\* answer, with the thread back at the while test.
AnswerFailureHandled ==
    [][\A t \in Threads :
          /\ (pc[t] \in {"set_speaking"} \cup Requesting /\ pc'[t] # pc[t])
                => \/ pc'[t] \in Requesting /\ response'[t] = << >>
                   \/ /\ pc'[t] = "update_ui"
                      /\ IsErrorResponse(response'[t]) \/ IsAnswerResponse(response'[t])
          /\ (pc[t] = "update_ui" /\ pc'[t] # pc[t])
                => /\ ui' = Append(ui, << << >>, response[t] >>)
                   /\ is_speaking' = FALSE
                   /\ last_speak_time'[t] = now
                   /\ answer_done' = now
                   /\ pc'[t] = "while"]_vars

\* C11 witness: the error text was published as the answer, is_speaking is
\* False again, the completion time is recorded and the thread is in the loop
ErrorAnswerPublished ==
    \E t \in Threads :
        /\ pc[t] = "while"
        /\ Len(ui) > 0
        /\ IsAnswerEntry(ui[Len(ui)])
        /\ IsErrorResponse(ui[Len(ui)][2])
        /\ ~is_speaking
        /\ last_speak_time[t] = answer_done
        /\ answer_done > 0

\* C12: audio_playing is written by the two playback notifications only:
\* audio_playback_started sets it True, audio_playback_ended sets it False and
\* is_speaking False, speaking_ended sets is_speaking False and nothing else;
\* no other step changes audio_playing, and none of the three notifications
\* changes is_listening, api_key, client or tts_enabled.
AudioPlayingFrame ==
    [][/\ audio_playing' # audio_playing
             => (audio_playback_started \/ audio_playback_ended)
       /\ audio_playback_started
             => /\ audio_playing' = TRUE
                /\ UNCHANGED <<is_listening, is_speaking, tts_enabled, api_key, client>>
       /\ audio_playback_ended
             => /\ audio_playing' = FALSE
                /\ is_speaking' = FALSE
                /\ UNCHANGED <<is_listening, tts_enabled, api_key, client>>
       /\ speaking_ended
             => /\ is_speaking' = FALSE
                /\ UNCHANGED <<is_listening, audio_playing, tts_enabled, api_key, client>>]_vars

\* C12 witness: audio_playback_started has set audio_playing, and it is still
\* True with a loop that has answered a question back at the while test
PlaybackFlagSurvivesLoop ==
    /\ audio_playing
    /\ \E t \in Threads : pc[t] = "while" /\ last_speak_time[t] > 0

\* the first word of a stripped text: its characters up to the first space
first_word(s) ==
    IF \E i \in 1..Len(s) : IsSpace(s[i])
    THEN SubSeq(s, 1, (CHOOSE i \in 1..Len(s) :
                          IsSpace(s[i]) /\ \A j \in 1..(i-1) : ~IsSpace(s[j])) - 1)
    ELSE s

\* C13: is_question returns a value for every transcript; it returns False for
\* the empty text and for a text whose lowercased, stripped form has no
\* question starter as its first word, does not end with "?" and contains no
\* question phrase; it returns True for "what is the weather",
\* "Is this working?" and "tell me about dogs".
DeclarativeIsNotQuestion ==
    verdict # << >> =>
        LET t == strip(lower(transcript))
        IN  /\ (\/ transcript = << >>
                \/ /\ first_word(t) \notin question_starters
                   /\ ~endswith(t, <<"?">>)
                   /\ \A phrase \in question_phrases : ~contains(t, phrase))
                  => ~verdict[1]
            /\ transcript \in {
                  <<"w","h","a","t"," ","i","s"," ","t","h","e"," ","w","e","a","t","h","e","r">>,
                  <<"I","s"," ","t","h","i","s"," ","w","o","r","k","i","n","g","?">>,
                  <<"t","e","l","l"," ","m","e"," ","a","b","o","u","t"," ","d","o","g","s">> }
                  => verdict[1]

is_question_without_rule4(raw) ==
    LET text == strip(lower(raw))
    IN  IF \E starter \in question_starters : startswith(text, starter) THEN TRUE
        ELSE IF endswith(text, <<"?">>) THEN TRUE
        ELSE IF \E phrase \in question_phrases : contains(text, phrase) THEN TRUE
        ELSE FALSE

\* C15: the inverted-auxiliary test of is_question is redundant: the value
\* is_question returns is the value it returns with that test left out, and
\* every text the regular expression matches starts with a question starter.
InvertedRuleRedundant ==
    verdict # << >> =>
        /\ verdict[1] = is_question_without_rule4(transcript)
        /\ match_inverted(strip(lower(transcript)))
              => \E starter \in question_starters :
                    startswith(strip(lower(transcript)), starter)

\* C15 witness: is_question has returned for a transcript that the regular
\* expression of the inverted-auxiliary test matches
InvertedRuleMatched ==
    /\ verdict = <<TRUE>>
    /\ match_inverted(strip(lower(transcript)))

\* C16: at most one listen_and_process loop is running at any time, however
\* toggle_listening calls and loop steps interleave.
AtMostOneLoop ==
    Cardinality({t \in Threads : Running(t)}) <= 1

\* C17: an iteration that ends in WaitTimeoutError or UnknownValueError
\* publishes nothing and leaves is_speaking, audio_playing, is_listening and
\* last_speak_time as they were; one that ends in any other exception of
\* listen or recognize_google publishes exactly one error line with an empty
\* answer and leaves the same fields as they were; a transcript that is not a
\* question publishes nothing and changes no field.
FailedIterationIsQuiet ==
    [][\A t \in Threads :
          (pc[t] \in {"listen", "recognize_google"} /\ pc'[t] # pc[t]) =>
             /\ (ListenOutcome(t, "WaitTimeoutError")
                    \/ RecognizeRaises(t, "UnknownValueError"))
                   => /\ UNCHANGED <<ui, is_speaking, audio_playing, is_listening,
                                     last_speak_time, answer_done>>
                      /\ pc'[t] = "while"
             /\ (ListenOutcome(t, "Exception") \/ RecognizeRaises(t, "Exception"))
                   => /\ ui' = Append(ui, <<error_line("Exception"), << >> >>)
                      /\ UNCHANGED <<is_speaking, audio_playing, is_listening,
                                     last_speak_time, answer_done>>
                      /\ pc'[t] = "while"
             /\ \A text \in Transcripts :
                   \/ /\ UNCHANGED <<shared, ui, last_speak_time, answer_done,
                                     capitalized_text, response>>
                      /\ pc'[t] = "while"
                   \/ ~(RecognizeReturns(t, text) /\ ~is_question(text))]_vars

\* C17 witness: one failed iteration has published its error line, the only
\* line so far, and the flags and last_speak_time are as before it
OneErrorLineOnly ==
    \E t \in Threads :
        /\ pc[t] = "while"
        /\ ui = << <<error_line("Exception"), << >> >> >>
        /\ is_listening /\ ~is_speaking /\ ~audio_playing
        /\ last_speak_time[t] = 0

\* C18: listening can always be switched off: a call of toggle_listening made
\* while is_listening is True sets it False, and the value a call of
\* toggle_listening returns is the value of is_listening after the call.
ToggleSwitchesOff ==
    [][toggle_listening =>
          /\ is_listening => ~is_listening'
          /\ toggle_listening_returns = is_listening']_vars

\* C19: after any sequence of save_api_key and delete_api_key calls
\* has_api_key is true exactly when the credential check of toggle_listening
\* passes, and a save_api_key call that returns False leaves api_key and
\* client as they were before the call.
CredentialConsistent ==
    [][/\ has_api_key' <=> client_ok'
       /\ \A k \in Keys, outcome \in SaveOutcomes :
             (set_api_key(k, outcome) /\ ~save_api_key_returns(outcome))
                => UNCHANGED <<api_key, client>>]_vars

====
